---- MODULE Spec2Model ----
(***************************************************************************)
(* The enrollment / capacity / grading engine of Lab_8/app.py (Flask +     *)
(* SQLAlchemy on SQLite).  The tables are sets of rows, every browser      *)
(* session is a client holding the signed cookie written by login, and     *)
(* every request handler is cut into one step per database round trip, so  *)
(* that requests of different sessions interleave between their queries    *)
(* and their commit (the development server is threaded).                  *)
(*                                                                         *)
(* Grade values are counted in hundredths of a grade point: 10000 is the   *)
(* grade 100.0, -1 is -0.01, 10001 is 100.01.                              *)
(***************************************************************************)
EXTENDS Integers, FiniteSets, Sequences, TLC

\* ------------------------------------------------------------------ bounds
\* requests (enroll, drop, setGrade) issued in one behaviour
MaxRequests == 3

\* --------------------------------------------------------------- constants
GradeMin == 0
GradeMax == 10000

\* two browser sessions, each with its own cookie
Sessions == {1, 2}
\* init_db provisions users in this order: admin, student1, student2, teacher1
AdminId == 1
Student1Id == 2
Student2Id == 3
Teacher1Id == 4
UserIds == {AdminId, Student1Id, Student2Id, Teacher1Id}
NoUser == 0
Roles == {"student", "teacher", "admin"}
CourseIds == {1, 2}
\* seat capacities of the scaled-down catalogue: with two students a course of
\* capacity 1 fills at one enrollment, a course of capacity 2 at two
Capacities == {1, 2}
\* a course id of the URL that names no course row
MissingCourseId == 3
NoGrade == [id |-> 0, grade_value |-> 0]
\* the status field of a request that is not an answered status query
NoStatus == [enrolled |-> 0, capacity |-> 0, available |-> 0, is_full |-> FALSE]
\* the 'grade' form field: absent, text that float() rejects, or a number
MissingField == [kind |-> "missing", num |-> 0]
TextField == [kind |-> "text", num |-> 0]
NumberField(n) == [kind |-> "number", num |-> n]
\* the text 'nan', which float() turns into the value NaN
NanField == [kind |-> "nan", num |-> 0]
GradeForms ==
    {MissingField, TextField, NanField}
        \cup {NumberField(n) : n \in {-1, GradeMin, GradeMax, GradeMax + 1}}

VARIABLES users, capacity, enrollments, grades, teacher_courses, session, req, nreq

vars == <<users, capacity, enrollments, grades, teacher_courses, session, req, nreq>>
db == <<users, capacity, enrollments, grades, teacher_courses>>

\* ------------------------------------------------------------ pure helpers
SetMax(S) == CHOOSE x \in S : \A y \in S : y <= x

\* SQLite rowid of an INTEGER PRIMARY KEY without AUTOINCREMENT: largest + 1
NextId(rows) == IF rows = {} THEN 1 ELSE SetMax({r.id : r \in rows}) + 1

EnrollmentsOf(rows, u, c) == {r \in rows : r.user_id = u /\ r.course_id = c}

GetEnrollmentCount(rows, c) == Cardinality({r \in rows : r.course_id = c})

\* Course.is_full of a course object loaded with capacity cap: the enrollments
\* are loaded when it is called, the capacity is the attribute loaded before
IsFull(rows, c, cap) == GetEnrollmentCount(rows, c) >= cap

GradesOf(rows, e) == {g \in rows : g.enrollment_id = e}

\* (mutation: the table without its unique constraint)
UniqueEnrollmentDropped(rows, u, c) == TRUE

\* UniqueConstraint('user_id', 'course_id'): may the row (u, c) be inserted?
UniqueEnrollment(rows, u, c) == EnrollmentsOf(rows, u, c) = {}

\* grades.enrollment_id is unique: may a grade of enrollment e be inserted?
UniqueGrade(rows, e) == GradesOf(rows, e) = {}

\* float(request.form.get('grade', 0)): ok is FALSE where float() raises, nan is
\* TRUE where the float is NaN (value then means nothing)
ParseGrade(form) ==
    IF form.kind = "missing" THEN [ok |-> TRUE, nan |-> FALSE, value |-> 0]
    ELSE IF form.kind = "text" THEN [ok |-> FALSE, nan |-> FALSE, value |-> 0]
    ELSE IF form.kind = "nan" THEN [ok |-> TRUE, nan |-> TRUE, value |-> 0]
    ELSE [ok |-> TRUE, nan |-> FALSE, value |-> form.num]

\* (mutation: the bounds themselves rejected)
GradeInRangeExclusive(v) == ~(v <= GradeMin \/ v >= GradeMax)

\* the negation of `grade_value < 0 or grade_value > 100`
GradeInRange(v) == ~(v < GradeMin \/ v > GradeMax)

\* ------------------------------------------------------------- the cookie
LoggedOut == [logged_in |-> FALSE, user_id |-> NoUser, role |-> "none"]

\* (mutation: a session that is not logged in passes the decorators)
GateRoleOnly(s, role) ==
    IF session[s].logged_in /\ session[s].role # role THEN "Forbidden" ELSE "ok"

\* login_required, then role_required(role): "ok" or the outcome of the refusal
Gate(s, role) ==
    IF ~session[s].logged_in THEN "LoginRequired"
    ELSE IF session[s].role # role THEN "Forbidden"
    ELSE "ok"

\* ------------------------------------------------------------ the requests
\* One record per session: the request it is serving, or the last one it served.
\* capacity is the attribute of the course object the handler loaded.
\* conc, alone, free0 and enrolled0 are history: the sessions whose present
\* request overlapped this one, whether no request at all overlapped this one,
\* and the free seats / own enrollment in the course when it was issued.
Idle ==
    [op |-> "none", pc |-> "done", user_id |-> NoUser, course_id |-> 0,
     capacity |-> 0, enrollment_id |-> 0, form |-> MissingField, grade |-> NoGrade,
     status |-> NoStatus,
     resp |-> "none", conc |-> {}, alone |-> TRUE, free0 |-> -1, enrolled0 |-> FALSE]

InFlight(s) == req[s].pc # "done"

\* session s issues the request rec: it overlaps the requests now in flight
Issue(s, rec) ==
    LET others == {x \in Sessions \ {s} : InFlight(x)}
    IN req' = [t \in Sessions |->
                 IF t = s THEN [rec EXCEPT !.conc = others, !.alone = (others = {})]
                 ELSE IF InFlight(t) THEN [req[t] EXCEPT !.conc = @ \cup {s}, !.alone = FALSE]
                 ELSE [req[t] EXCEPT !.conc = @ \ {s}]]

\* a request the decorators turned away: the handler never saw its arguments
Refused(op, u, outcome) == [Idle EXCEPT !.op = op, !.user_id = u, !.resp = outcome]

Finish(s, outcome) == req' = [req EXCEPT ![s].pc = "done", ![s].resp = outcome]

Goto(s, label) == req' = [req EXCEPT ![s].pc = label]

CanIssue(s) == ~InFlight(s) /\ nreq < MaxRequests

UserExists(u) == u \in UserIds /\ users[u] # "none"

CourseExists(c) == c \in DOMAIN capacity

Assigned(t, c) == [teacher_id |-> t, course_id |-> c] \in teacher_courses

\* ----------------------------------------------------------- initial state
\* The provisioned store, scaled down: the users of init_db, two courses with
\* capacities drawn from Capacities, teacher1 teaching course 1 only, and either
\* no enrollment or student1's enrollment in course 1 (enrollment1 of init_db),
\* not graded yet.
InitUsers ==
    [u \in UserIds |->
        IF u = AdminId THEN "admin" ELSE IF u = Teacher1Id THEN "teacher" ELSE "student"]

Enrollment1 == [id |-> 1, user_id |-> Student1Id, course_id |-> 1]

InitStore ==
    /\ users = InitUsers
    /\ capacity \in [CourseIds -> Capacities]
    /\ enrollments \in {{}, {Enrollment1}}
    /\ grades = {}
    /\ teacher_courses = {[teacher_id |-> Teacher1Id, course_id |-> 1]}
    /\ req = [s \in Sessions |-> Idle]
    /\ nreq = 0

\* the cookie that login writes for user u
Cookie(u) == [logged_in |-> TRUE, user_id |-> u, role |-> users[u]]

\* Every session is logged in as a student or as the teacher.  Sessions are
\* interchangeable, so each combination of identities is listed once.
Init ==
    /\ InitStore
    /\ session \in [Sessions -> {Cookie(u) : u \in {Student1Id, Student2Id, Teacher1Id}}]
    /\ \A s, t \in Sessions : s < t => session[s].user_id <= session[t].user_id

\* ---------------------------------------------------------- login / logout
\* the password field of the login form: the password of the named user, another
\* one, or nothing but blanks
Passwords == {"right", "wrong", "blank"}

\* (mutation: a name nobody has is reported as such)
LoginResultNamesMissing(s, u, pw) ==
    IF pw = "blank" THEN [resp |-> "Required", cookie |-> session[s]]
    ELSE IF ~UserExists(u) THEN [resp |-> "NoSuchUser", cookie |-> session[s]]
    ELSE IF pw = "right" THEN [resp |-> "Success", cookie |-> Cookie(u)]
    ELSE [resp |-> "AuthFailure", cookie |-> session[s]]

\* What the caller of POST /login gets on session s for the name of user u
\* (NoUser: a name nobody has) and the password pw: the message flashed and the
\* cookie afterwards.  The time the response takes is not part of the result.
LoginResult(s, u, pw) ==
    IF pw = "blank" THEN [resp |-> "Required", cookie |-> session[s]]
    ELSE IF UserExists(u) /\ pw = "right" THEN [resp |-> "Success", cookie |-> Cookie(u)]
    ELSE [resp |-> "AuthFailure", cookie |-> session[s]]

\* POST /login
Login(s, u, pw) ==
    /\ CanIssue(s)
    /\ nreq' = nreq + 1
    /\ session' = [session EXCEPT ![s] = LoginResult(s, u, pw).cookie]
    /\ Issue(s, [Idle EXCEPT !.op = "login", !.user_id = u,
                             !.resp = LoginResult(s, u, pw).resp])
    /\ UNCHANGED db

\* GET /logout, by a session that holds a cookie.  Every logout follows a login
\* of the session, so it is not counted in the budget of requests.
Logout(s) ==
    /\ ~InFlight(s)
    /\ session[s] # LoggedOut
    /\ session' = [session EXCEPT ![s] = LoggedOut]
    /\ Issue(s, [Idle EXCEPT !.op = "logout", !.resp = "Success"])
    /\ UNCHANGED <<db, nreq>>

\* ------------------------------------------------------------------ enroll
\* POST /student/enroll/<c>: the decorators, then Course.query.get_or_404
EnrollBegin(s, c) ==
    /\ CanIssue(s)
    /\ nreq' = nreq + 1
    /\ LET u == session[s].user_id
           gate == Gate(s, "student")
           rec == [Idle EXCEPT !.op = "enroll", !.user_id = u, !.course_id = c]
       IN IF gate # "ok" THEN Issue(s, Refused("enroll", u, gate))
          ELSE IF ~CourseExists(c) THEN Issue(s, [rec EXCEPT !.resp = "Http404"])
          ELSE Issue(s, [rec EXCEPT !.pc = "enroll_existing",
                                    !.capacity = capacity[c],
                                    !.free0 = capacity[c] - GetEnrollmentCount(enrollments, c),
                                    !.enrolled0 = EnrollmentsOf(enrollments, u, c) # {}])
    /\ UNCHANGED <<db, session>>

\* (mutation: the capacity check comes first, the existing row is not looked up)
EnrollCheckExistingSkipped(s) ==
    /\ req[s].pc = "enroll_existing"
    /\ Goto(s, "enroll_full")
    /\ UNCHANGED <<db, session, nreq>>

\* Enrollment.query.filter_by(user_id, course_id).first()
EnrollCheckExisting(s) ==
    /\ req[s].pc = "enroll_existing"
    /\ IF EnrollmentsOf(enrollments, req[s].user_id, req[s].course_id) # {}
       THEN Finish(s, "AlreadyEnrolled")
       ELSE Goto(s, "enroll_full")
    /\ UNCHANGED <<db, session, nreq>>

\* course.is_full(), which loads course.enrollments
EnrollCheckFull(s) ==
    /\ req[s].pc = "enroll_full"
    /\ IF IsFull(enrollments, req[s].course_id, req[s].capacity)
       THEN Finish(s, "CourseFull")
       ELSE Goto(s, "enroll_insert")
    /\ UNCHANGED <<db, session, nreq>>

\* db.session.add(enrollment); db.session.commit(): the unique constraint decides.
\* The commit expires the course object, and the success message reloads it for
\* its name: with the course row gone the request fails after its commit.
EnrollInsert(s) ==
    /\ req[s].pc = "enroll_insert"
    /\ LET u == req[s].user_id
           c == req[s].course_id
       IN IF UniqueEnrollment(enrollments, u, c)
          THEN /\ enrollments' = enrollments \cup
                      {[id |-> NextId(enrollments), user_id |-> u, course_id |-> c]}
               /\ Finish(s, IF CourseExists(c) THEN "Success" ELSE "Http500")
          ELSE /\ UNCHANGED enrollments
               /\ Finish(s, "Http500")
    /\ UNCHANGED <<users, capacity, grades, teacher_courses, session, nreq>>

\* -------------------------------------------------------------------- drop
\* (mutation: a drop that finds nothing reports success)
DropOutcomeSilent(found) == "Success"

\* the two branches of `if enrollment:` in student_drop
DropOutcome(found) == IF found THEN "Success" ELSE "NotFound"

\* POST /student/drop/<c>: the decorators, then the query for the enrollment
DropBegin(s, c) ==
    /\ CanIssue(s)
    /\ nreq' = nreq + 1
    /\ LET u == session[s].user_id
           gate == Gate(s, "student")
           found == EnrollmentsOf(enrollments, u, c)
           rec == [Idle EXCEPT !.op = "drop", !.user_id = u, !.course_id = c]
       IN IF gate # "ok" THEN Issue(s, Refused("drop", u, gate))
          ELSE IF found = {} THEN Issue(s, [rec EXCEPT !.resp = DropOutcome(FALSE)])
          ELSE Issue(s, [rec EXCEPT !.pc = "drop_delete", !.enrolled0 = TRUE,
                                    !.enrollment_id = (CHOOSE r \in found : TRUE).id])
    /\ UNCHANGED <<db, session>>

\* enrollment.course.name; db.session.delete(enrollment); db.session.commit().
\* The delete cascades to the grade the enrollment has at that moment; a DELETE
\* that matches no row only warns.
DropDelete(s) ==
    /\ req[s].pc = "drop_delete"
    /\ LET e == req[s].enrollment_id
       IN IF ~CourseExists(req[s].course_id)
          THEN /\ UNCHANGED <<enrollments, grades>>
               /\ Finish(s, "Http500")
          ELSE /\ enrollments' = {r \in enrollments : r.id # e}
               /\ grades' = grades \ GradesOf(grades, e)
               /\ Finish(s, DropOutcome(TRUE))
    /\ UNCHANGED <<users, capacity, teacher_courses, session, nreq>>

\* ---------------------------------------------------------------- setGrade
\* (mutation: the value is validated before the caller is authorized)
GradeChecksRangeFirst(assigned, form) ==
    IF ~ParseGrade(form).ok THEN "InvalidValue"
    ELSE IF ~ParseGrade(form).nan /\ ~GradeInRange(ParseGrade(form).value) THEN "InvalidRange"
    ELSE IF ~assigned THEN "Forbidden"
    ELSE "ok"

\* teacher_edit_grade after the enrollment is loaded: the TeacherCourse check,
\* then float() and the range check; both comparisons of the range check are
\* false for NaN
GradeChecks(assigned, form) ==
    IF ~assigned THEN "Forbidden"
    ELSE IF ~ParseGrade(form).ok THEN "InvalidValue"
    ELSE IF ~ParseGrade(form).nan /\ ~GradeInRange(ParseGrade(form).value) THEN "InvalidRange"
    ELSE "ok"

\* the enrollment ids a URL may carry: those of the rows, and one that names no row
EnrollmentIdInputs == {r.id : r \in enrollments} \cup {NextId(enrollments)}

\* POST /teacher/grade/<e>: the decorators, then Enrollment.query.get_or_404
GradeBegin(s, form) ==
    /\ CanIssue(s)
    /\ nreq' = nreq + 1
    /\ \E e \in EnrollmentIdInputs :
       LET u == session[s].user_id
           gate == Gate(s, "teacher")
           found == {r \in enrollments : r.id = e}
           rec == [Idle EXCEPT !.op = "grade", !.user_id = u, !.enrollment_id = e,
                               !.form = form]
       IN IF gate # "ok" THEN Issue(s, Refused("grade", u, gate))
          ELSE IF found = {} THEN Issue(s, [rec EXCEPT !.resp = "Http404"])
          ELSE Issue(s, [rec EXCEPT !.pc = "grade_auth",
                                    !.course_id = (CHOOSE r \in found : TRUE).course_id])
    /\ UNCHANGED <<db, session>>

\* TeacherCourse.query.filter_by(teacher_id, course_id).first(), then validation
GradeAuthorize(s) ==
    /\ req[s].pc = "grade_auth"
    /\ LET outcome == GradeChecks(Assigned(req[s].user_id, req[s].course_id), req[s].form)
       IN IF outcome # "ok" THEN Finish(s, outcome) ELSE Goto(s, "grade_read")
    /\ UNCHANGED <<db, session, nreq>>

\* `if enrollment.grade:` loads the grade of the enrollment
GradeRead(s) ==
    /\ req[s].pc = "grade_read"
    /\ LET found == GradesOf(grades, req[s].enrollment_id)
           g == CHOOSE r \in found : TRUE
       IN req' = [req EXCEPT ![s].pc = "grade_write",
                             ![s].grade = IF found = {} THEN NoGrade
                                          ELSE [id |-> g.id, grade_value |-> g.grade_value]]
    /\ UNCHANGED <<db, session, nreq>>

\* (mutation: the write always inserts, whatever grade was read)
GradeCommitInsertOnly(rows, e, g, v) ==
    IF UniqueGrade(rows, e)
    THEN [rows |-> rows \cup {[id |-> NextId(rows), enrollment_id |-> e, grade_value |-> v]},
          resp |-> "Success"]
    ELSE [rows |-> rows, resp |-> "Http500"]

\* The rows after the write of value v for enrollment e by a request that read
\* the grade g, and the outcome of the commit: an unchanged value writes nothing,
\* an UPDATE that matches no row and an INSERT that breaks uniqueness fail.
GradeCommit(rows, e, g, v) ==
    IF g # NoGrade
    THEN IF g.grade_value = v THEN [rows |-> rows, resp |-> "Success"]
         ELSE IF \E r \in rows : r.id = g.id
         THEN [rows |-> {IF r.id = g.id THEN [r EXCEPT !.grade_value = v] ELSE r : r \in rows},
               resp |-> "Success"]
         ELSE [rows |-> rows, resp |-> "Http500"]
    ELSE IF UniqueGrade(rows, e)
         THEN [rows |-> rows \cup {[id |-> NextId(rows), enrollment_id |-> e, grade_value |-> v]},
               resp |-> "Success"]
         ELSE [rows |-> rows, resp |-> "Http500"]

\* the assignment or db.session.add(new_grade), then db.session.commit().  The
\* commit expires the enrollment object, and the redirect reloads it for its
\* course_id: with the enrollment row gone the request fails after its commit.
\* SQLite binds NaN as NULL and grade_value is NOT NULL: a write of NaN fails.
GradeWrite(s) ==
    /\ req[s].pc = "grade_write"
    /\ LET parsed == ParseGrade(req[s].form)
           res == IF parsed.nan THEN [rows |-> grades, resp |-> "Http500"]
                  ELSE GradeCommit(grades, req[s].enrollment_id, req[s].grade, parsed.value)
           reloaded == \E r \in enrollments : r.id = req[s].enrollment_id
       IN /\ grades' = res.rows
          /\ Finish(s, IF res.resp = "Success" /\ ~reloaded THEN "Http500" ELSE res.resp)
    /\ UNCHANGED <<users, capacity, enrollments, teacher_courses, session, nreq>>

\* ------------------------------------------------------------ specification
\* the requests of students and teachers on sessions that stay logged in
Next ==
    \/ \E s \in Sessions, c \in CourseIds \cup {MissingCourseId} : EnrollBegin(s, c)
    \/ \E s \in Sessions : EnrollCheckExisting(s)
    \/ \E s \in Sessions : EnrollCheckFull(s)
    \/ \E s \in Sessions : EnrollInsert(s)
    \/ \E s \in Sessions, c \in CourseIds \cup {MissingCourseId} : DropBegin(s, c)
    \/ \E s \in Sessions : DropDelete(s)
    \/ \E s \in Sessions, form \in GradeForms : GradeBegin(s, form)
    \/ \E s \in Sessions : GradeAuthorize(s)
    \/ \E s \in Sessions : GradeRead(s)
    \/ \E s \in Sessions : GradeWrite(s)

Spec == Init /\ [][Next]_vars

\* ---------------------------------------------------------------- sessions
\* Both browsers start without a cookie; the requests of students and teachers
\* are interleaved with logins and logouts.
InitSession ==
    /\ InitStore
    /\ session = [s \in Sessions |-> LoggedOut]

NextSession ==
    \/ Next
    \/ \E s \in Sessions, u \in UserIds \cup {NoUser}, pw \in Passwords : Login(s, u, pw)
    \/ \E s \in Sessions : Logout(s)

SpecSession == InitSession /\ [][NextSession]_vars

\* ------------------------------------------------------------ status query
\* the JSON object of api_enrollment_count for a course object loaded with
\* capacity cap, whose enrollments are the rows of course c
EnrollmentCountJson(rows, c, cap) ==
    [enrolled |-> GetEnrollmentCount(rows, c),
     capacity |-> cap,
     available |-> cap - GetEnrollmentCount(rows, c),
     is_full |-> IsFull(rows, c, cap)]

\* GET /api/course/<c>/enrollment_count: login_required, then get_or_404
ApiEnrollmentCountBegin(s, c) ==
    /\ CanIssue(s)
    /\ nreq' = nreq + 1
    /\ LET u == session[s].user_id
           rec == [Idle EXCEPT !.op = "status", !.user_id = u, !.course_id = c]
       IN IF ~session[s].logged_in THEN Issue(s, Refused("status", u, "LoginRequired"))
          ELSE IF ~CourseExists(c) THEN Issue(s, [rec EXCEPT !.resp = "Http404"])
          ELSE Issue(s, [rec EXCEPT !.pc = "status_count", !.capacity = capacity[c]])
    /\ UNCHANGED <<db, session>>

\* the first get_enrollment_count() loads course.enrollments; the later calls
\* and is_full() read the loaded collection
ApiEnrollmentCount(s) ==
    /\ req[s].pc = "status_count"
    /\ req' = [req EXCEPT ![s].pc = "done", ![s].resp = "Success",
                          ![s].status = EnrollmentCountJson(enrollments, req[s].course_id,
                                                            req[s].capacity)]
    /\ UNCHANGED <<db, session, nreq>>

\* the requests of students and teachers, and the status queries of both
NextStatus ==
    \/ Next
    \/ \E s \in Sessions, c \in CourseIds \cup {MissingCourseId} : ApiEnrollmentCountBegin(s, c)
    \/ \E s \in Sessions : ApiEnrollmentCount(s)

SpecStatus == Init /\ [][NextStatus]_vars

\* ------------------------------------------------------------------- admin
\* The Flask-Admin views of the tables, open to a session whose cookie says
\* logged_in with role admin.  Each write is one request of the budget.
IsAccessible(s) == session[s].logged_in /\ session[s].role = "admin"

AdminCanWrite(s) == IsAccessible(s) /\ CanIssue(s)

\* create a TeacherCourse row; the unique constraint refuses a second one
AdminAssign(s, t, c) ==
    /\ AdminCanWrite(s)
    /\ ~Assigned(t, c)
    /\ teacher_courses' = teacher_courses \cup {[teacher_id |-> t, course_id |-> c]}
    /\ nreq' = nreq + 1
    /\ UNCHANGED <<users, capacity, enrollments, grades, session, req>>

\* delete a TeacherCourse row
AdminUnassign(s, t, c) ==
    /\ AdminCanWrite(s)
    /\ Assigned(t, c)
    /\ teacher_courses' = teacher_courses \ {[teacher_id |-> t, course_id |-> c]}
    /\ nreq' = nreq + 1
    /\ UNCHANGED <<users, capacity, enrollments, grades, session, req>>

\* edit the role column of a user
AdminSetRole(s, u, r) ==
    /\ AdminCanWrite(s)
    /\ UserExists(u) /\ users[u] # r
    /\ users' = [users EXCEPT ![u] = r]
    /\ nreq' = nreq + 1
    /\ UNCHANGED <<capacity, enrollments, grades, teacher_courses, session, req>>

\* delete a user: the relationships cascade to the user's enrollments, to their
\* grades and to the user's TeacherCourse rows
AdminDeleteUser(s, u) ==
    /\ AdminCanWrite(s)
    /\ UserExists(u)
    /\ LET gone == {r \in enrollments : r.user_id = u}
       IN /\ users' = [users EXCEPT ![u] = "none"]
          /\ enrollments' = enrollments \ gone
          /\ grades' = {g \in grades : g.enrollment_id \notin {r.id : r \in gone}}
          /\ teacher_courses' = {tc \in teacher_courses : tc.teacher_id # u}
    /\ nreq' = nreq + 1
    /\ UNCHANGED <<capacity, session, req>>

\* (mutation: the course row is deleted and nothing else)
AdminDeleteCourseOnly(s, c) ==
    /\ AdminCanWrite(s)
    /\ CourseExists(c)
    /\ capacity' = [d \in DOMAIN capacity \ {c} |-> capacity[d]]
    /\ nreq' = nreq + 1
    /\ UNCHANGED <<users, enrollments, grades, teacher_courses, session, req>>

\* delete a course: the relationships cascade to the course's enrollments, to
\* their grades and to the course's TeacherCourse rows
AdminDeleteCourse(s, c) ==
    /\ AdminCanWrite(s)
    /\ CourseExists(c)
    /\ LET gone == {r \in enrollments : r.course_id = c}
       IN /\ capacity' = [d \in DOMAIN capacity \ {c} |-> capacity[d]]
          /\ enrollments' = enrollments \ gone
          /\ grades' = {g \in grades : g.enrollment_id \notin {r.id : r \in gone}}
          /\ teacher_courses' = {tc \in teacher_courses : tc.course_id # c}
    /\ nreq' = nreq + 1
    /\ UNCHANGED <<users, session, req>>

\* delete one row in the Grades view
AdminDeleteGrade(s) ==
    /\ AdminCanWrite(s)
    /\ \E g \in grades : grades' = grades \ {g}
    /\ nreq' = nreq + 1
    /\ UNCHANGED <<users, capacity, enrollments, teacher_courses, session, req>>

\* create a row in the Enrollments view from the two integers of its form; the
\* unique constraint refuses a second row for the pair
AdminCreateEnrollment(s, u, c) ==
    /\ AdminCanWrite(s)
    /\ UniqueEnrollment(enrollments, u, c)
    /\ enrollments' = enrollments \cup
           {[id |-> NextId(enrollments), user_id |-> u, course_id |-> c]}
    /\ nreq' = nreq + 1
    /\ UNCHANGED <<users, capacity, grades, teacher_courses, session, req>>

\* Every session holds the cookie of an earlier login, the administrator's
\* among them; each combination of identities is listed once.
InitAdmin ==
    /\ InitStore
    /\ session \in [Sessions -> {Cookie(u) : u \in UserIds}]
    /\ \A s, t \in Sessions : s < t => session[s].user_id <= session[t].user_id
    /\ \E s \in Sessions : session[s].user_id = AdminId

\* the requests of students and teachers, interleaved with the administrator's
\* writes: on the users, on the courses, on the course assignments of teacher1,
\* on the grades and on the enrollments of the two students
NextAdmin ==
    \/ Next
    \/ \E s \in Sessions, c \in CourseIds : AdminAssign(s, Teacher1Id, c)
    \/ \E s \in Sessions, c \in CourseIds : AdminUnassign(s, Teacher1Id, c)
    \/ \E s \in Sessions, u \in UserIds, r \in Roles : AdminSetRole(s, u, r)
    \/ \E s \in Sessions, u \in UserIds : AdminDeleteUser(s, u)
    \/ \E s \in Sessions, c \in CourseIds : AdminDeleteCourse(s, c)
    \/ \E s \in Sessions : AdminDeleteGrade(s)
    \/ \E s \in Sessions, u \in {Student1Id, Student2Id}, c \in CourseIds :
          AdminCreateEnrollment(s, u, c)

SpecAdmin == InitAdmin /\ [][NextAdmin]_vars

\* ================================================================== claims
Done(s) == req[s].pc = "done"

\* the requests of s and t were in flight at the same time
Overlap(s, t) == t \in req[s].conc

\* the request of s was admitted by the decorators and found its course
Admitted(s) == req[s].free0 # -1

\* C1: for every course, the number of Enrollment rows referencing it never
\* exceeds its capacity, whatever enroll and drop requests the students issue
\* and however their steps interleave.
C1_CapacityNeverExceeded ==
    \A c \in CourseIds : GetEnrollmentCount(enrollments, c) <= capacity[c]

\* C2: two different students, neither enrolled, whose enroll requests for one
\* course overlap, both issued while the course had exactly one free seat:
\* exactly one request ends in success and the other in CourseFull.
C2_OneWinnerAtLastSeat ==
    \A s, t \in Sessions :
        ( /\ s # t /\ Done(s) /\ Done(t) /\ Overlap(s, t)
          /\ req[s].op = "enroll" /\ req[t].op = "enroll"
          /\ req[s].course_id = req[t].course_id
          /\ req[s].user_id # req[t].user_id
          /\ req[s].free0 = 1 /\ req[t].free0 = 1
          /\ ~req[s].enrolled0 /\ ~req[t].enrolled0 )
        => {req[s].resp, req[t].resp} = {"Success", "CourseFull"}

\* C3, first half: at most one Enrollment row per (student, course) pair
C3_AtMostOneRow ==
    \A u \in UserIds, c \in CourseIds : Cardinality(EnrollmentsOf(enrollments, u, c)) <= 1

\* C3, second half: an enroll that no other request overlapped, issued by a
\* student not enrolled in a course with a free seat, ends in success with exactly
\* one row for the pair; a drop that no other request overlapped, issued by an
\* enrolled student, ends in success with no row for the pair.  Enroll, drop,
\* enroll is three such steps in a row.
C3_RoundTripStep ==
    \A s \in Sessions :
        LET u == req[s].user_id
            c == req[s].course_id
        IN /\ (EnrollInsert(s) \/ EnrollCheckFull(s) \/ EnrollCheckExisting(s))
                 /\ Done(s)' /\ req'[s].alone
                 /\ ~req[s].enrolled0 /\ req[s].free0 >= 1
              => /\ req'[s].resp = "Success"
                 /\ Cardinality(EnrollmentsOf(enrollments', u, c)) = 1
           /\ DropDelete(s) /\ req'[s].alone
              => /\ req'[s].resp = "Success"
                 /\ EnrollmentsOf(enrollments', u, c) = {}

\* C3: for every (student, course) pair at most one Enrollment row exists in
\* every reachable state, also when one student enrolls from two sessions at
\* once, and enroll, drop, enroll by one student on a course with a free seat
\* succeeds at each step and ends with exactly one row for the pair.
C3_OneRowPerPair == []C3_AtMostOneRow /\ [][C3_RoundTripStep]_vars

\* one student, on a course nobody was enrolled in initially, has dropped with
\* success from one session and then enrolled with success from the other: the
\* drop removed the row of an earlier successful enroll
C3_Witness ==
    \E s, t \in Sessions :
        /\ s # t /\ Done(s) /\ Done(t)
        /\ req[s].op = "drop" /\ req[s].resp = "Success" /\ req[s].alone
        /\ req[t].op = "enroll" /\ req[t].resp = "Success" /\ req[t].alone
        /\ req[s].user_id = req[t].user_id
        /\ req[s].course_id = 2 /\ req[t].course_id = 2
        /\ nreq = 3
        /\ Cardinality(EnrollmentsOf(enrollments, req[t].user_id, 2)) = 1

\* the value a setGrade request carries
ValueOf(s) == ParseGrade(req[s].form).value

\* C4: a setGrade with a valid value (not NaN) that no other request overlapped ends in
\* success and leaves exactly one Grade row for the enrollment, holding the
\* value of that call; so setGrade(e, v1) followed by setGrade(e, v2) leaves one
\* row holding v2, and a sequence of calls leaves the value of the last one.
C4_LastGradeWins ==
    [][\A s \in Sessions :
          GradeWrite(s) /\ req'[s].alone /\ ~ParseGrade(req[s].form).nan
          => /\ req'[s].resp = "Success"
             /\ \E g \in grades' :
                   /\ GradesOf(grades', req[s].enrollment_id) = {g}
                   /\ g.grade_value = ValueOf(s)]_vars

\* a setGrade no request overlapped has overwritten a different earlier grade
C4_Witness ==
    \E s \in Sessions :
        /\ Done(s) /\ req[s].op = "grade" /\ req[s].resp = "Success" /\ req[s].alone
        /\ req[s].grade # NoGrade
        /\ req[s].grade.grade_value # ValueOf(s)
        /\ \E g \in grades : /\ GradesOf(grades, req[s].enrollment_id) = {g}
                              /\ g.grade_value = ValueOf(s)

\* C5: two sessions whose setGrade requests on one enrollment overlap, both
\* having read that the enrollment has no Grade: both end in success and one
\* Grade row is left, holding the value of one of the two calls.
C5_ConcurrentUpsert ==
    \A s, t \in Sessions :
        ( /\ s # t /\ Done(s) /\ Done(t) /\ Overlap(s, t)
          /\ req[s].op = "grade" /\ req[t].op = "grade"
          /\ req[s].enrollment_id = req[t].enrollment_id
          /\ req[s].resp \in {"Success", "Http500"}
          /\ req[t].resp \in {"Success", "Http500"}
          /\ req[s].grade = NoGrade /\ req[t].grade = NoGrade )
        => /\ req[s].resp = "Success" /\ req[t].resp = "Success"
           /\ \E g \in grades :
                 /\ GradesOf(grades, req[s].enrollment_id) = {g}
                 /\ g.grade_value \in {ValueOf(s), ValueOf(t)}

\* C6: the validation step of a setGrade by a teacher assigned to the course,
\* carrying a number v: for v < 0 or v > 100 the request ends in InvalidRange
\* and no Grade row changes; for 0 <= v <= 100 (0 and 100 included) it passes,
\* and its write, when no other request overlapped it, ends in success.
C6_RangeCheck ==
    [][\A s \in Sessions :
          LET v == req[s].form.num
          IN /\ ( /\ GradeAuthorize(s)
                  /\ Assigned(req[s].user_id, req[s].course_id)
                  /\ req[s].form.kind = "number" )
                => /\ (v < 0 \/ v > 10000)
                      => (Done(s)' /\ req'[s].resp = "InvalidRange" /\ grades' = grades)
                   /\ (0 <= v /\ v <= 10000) => req'[s].pc = "grade_read"
             /\ (GradeWrite(s) /\ req'[s].alone /\ req[s].form.kind = "number")
                => req'[s].resp = "Success"]_vars

\* 100.01 has been refused as InvalidRange and the bound 100 has been stored
C6_Witness ==
    \E s, t \in Sessions :
        /\ Done(s) /\ req[s].op = "grade" /\ req[s].resp = "InvalidRange"
        /\ req[s].form = NumberField(10001)
        /\ Done(t) /\ req[t].op = "grade" /\ req[t].resp = "Success"
        /\ req[t].form = NumberField(10000)
        /\ \E g \in grades : g.enrollment_id = req[t].enrollment_id /\ g.grade_value = 10000

\* C7: a logged-in teacher with no TeacherCourse row for the course of the
\* enrollment gets Forbidden from setGrade whatever the grade field holds (a
\* valid number, an invalid one, text or nothing), and no Grade row changes.
C7_ForbiddenFirst ==
    [][\A s \in Sessions :
          GradeAuthorize(s) /\ ~Assigned(req[s].user_id, req[s].course_id)
          => Done(s)' /\ req'[s].resp = "Forbidden" /\ grades' = grades]_vars

\* the teacher was refused on an enrollment of a course that is not theirs
\* while carrying the out-of-range value 100.01
C7_Witness ==
    \E s \in Sessions :
        /\ Done(s) /\ req[s].op = "grade" /\ req[s].resp = "Forbidden"
        /\ session[s].role = "teacher"
        /\ req[s].form = NumberField(10001)
        /\ ~Assigned(req[s].user_id, req[s].course_id)
        /\ \E r \in enrollments : r.id = req[s].enrollment_id

\* C8: a drop by a logged-in student who has no Enrollment row for the course
\* ends in NotFound and changes neither the Enrollment nor the Grade rows; so
\* the drop that follows a successful drop of the same pair ends in NotFound.
C8_DropMissing ==
    [][\A s \in Sessions, c \in CourseIds \cup {MissingCourseId} :
          ( /\ Gate(s, "student") = "ok"
            /\ EnrollmentsOf(enrollments, session[s].user_id, c) = {}
            /\ req'[s].op = "drop"
            /\ DropBegin(s, c) )
          => /\ Done(s)' /\ req'[s].resp = "NotFound"
             /\ enrollments' = enrollments /\ grades' = grades]_vars

\* a student's second drop of a course, issued from the other session after
\* the first drop succeeded, has ended in NotFound
C8_Witness ==
    \E s, t \in Sessions :
        /\ s # t /\ Done(s) /\ Done(t) /\ ~Overlap(s, t)
        /\ req[s].op = "drop" /\ req[s].resp = "Success"
        /\ req[t].op = "drop" /\ req[t].resp = "NotFound"
        /\ req[s].user_id = req[t].user_id /\ req[s].course_id = req[t].course_id
        /\ EnrollmentsOf(enrollments, req[s].user_id, req[s].course_id) = {}

\* C9: in a course of capacity 1, an enroll of a student B who is not enrolled
\* ends in CourseFull when it was issued while the seat was taken and no other
\* request overlapped it, and when it overlapped the successful enroll of
\* another student; and the course never holds more than one enrollment.
C9_SingleSeat ==
    \A c \in CourseIds :
        capacity[c] = 1 =>
            /\ GetEnrollmentCount(enrollments, c) <= 1
            /\ \A s \in Sessions :
                  ( /\ Done(s) /\ req[s].op = "enroll" /\ req[s].course_id = c
                    /\ Admitted(s) /\ ~req[s].enrolled0
                    /\ \/ req[s].free0 = 0 /\ req[s].alone
                       \/ \E t \in req[s].conc :
                             /\ Done(t) /\ req[t].op = "enroll" /\ req[t].course_id = c
                             /\ req[t].user_id # req[s].user_id
                             /\ req[t].resp = "Success" )
                  => req[s].resp = "CourseFull"

\* the role the users table holds for user u now
StoredRole(u) == IF UserExists(u) THEN users[u] ELSE "none"

NotRefused(s) == req'[s].resp \notin {"LoginRequired", "Forbidden"}

\* C10: every mutating operation is authorized from the store as it is when the
\* request is made: an enroll or a drop passes its role check only if the users
\* table holds the role student for the caller at that moment, a setGrade only
\* if it holds the role teacher, and a setGrade passes its course check only if
\* a TeacherCourse row for the caller and the course exists at that moment.
C10_AuthorizedByStore ==
    [][\A s \in Sessions :
          /\ \A c \in CourseIds \cup {MissingCourseId} :
                (EnrollBegin(s, c) \/ DropBegin(s, c)) /\ NotRefused(s)
                => StoredRole(session[s].user_id) = "student"
          /\ \A form \in GradeForms :
                GradeBegin(s, form) /\ NotRefused(s)
                => StoredRole(session[s].user_id) = "teacher"
          /\ GradeAuthorize(s) /\ NotRefused(s)
                => Assigned(req[s].user_id, req[s].course_id)]_vars

\* the ledger state of the pair (u, c): not enrolled, enrolled without a Grade
\* row for the enrollment, or enrolled with one
PairState(erows, grows, u, c) ==
    LET rs == EnrollmentsOf(erows, u, c)
    IN IF rs = {} THEN "NotEnrolled"
       ELSE IF \E r \in rs : GradesOf(grows, r.id) # {} THEN "Graded"
       ELSE "Ungraded"

\* C11: every pair (student, course) moves NotEnrolled -> Ungraded -> Graded ->
\* NotEnrolled (a drop may also take Ungraded to NotEnrolled): the Enrollment
\* row a successful enroll creates has no Grade row attached, also when
\* enrollments that had been graded were dropped before.
C11_NewEnrollmentUngraded ==
    [][\A u \in UserIds, c \in CourseIds :
          LET before == PairState(enrollments, grades, u, c)
              after == PairState(enrollments', grades', u, c)
          IN /\ before = "NotEnrolled" => after \in {"NotEnrolled", "Ungraded"}
             /\ before = "Ungraded" => after \in {"Ungraded", "Graded", "NotEnrolled"}
             /\ before = "Graded" => after \in {"Graded", "NotEnrolled"}]_vars

\* every Grade row references an Enrollment row that exists
C12_GradeHasEnrollment ==
    \A g \in grades : \E r \in enrollments : r.id = g.enrollment_id

\* in a step in which a Grade row disappears, its Enrollment row disappears too
C12_RemovedWithEnrollment ==
    \A g \in grades :
        (\A h \in grades' : h.id # g.id)
        => /\ \E r \in enrollments : r.id = g.enrollment_id
           /\ \A r \in enrollments' : r.id # g.enrollment_id

\* C12: a Grade row is never removed by itself: whenever one disappears, the
\* Enrollment it belongs to is removed in the same step (a drop, or the cascade
\* of deleting its student or its course), and in every reachable state every
\* Grade row references an existing Enrollment.
C12_GradeOnlyCascades == []C12_GradeHasEnrollment /\ [][C12_RemovedWithEnrollment]_vars

\* the answer of every status query completed so far keeps available >= 0 and
\* reports isFull exactly when available = 0
C13_AnswerConsistent ==
    \A s \in Sessions :
        (Done(s) /\ req[s].op = "status" /\ req[s].resp = "Success")
        => /\ req[s].status.available >= 0
           /\ req[s].status.is_full <=> (req[s].status.available = 0)

\* the step that answers a status query changes no table and reports the rows
\* and the capacity of the course as they are
C13_AnswerStep ==
    \A s \in Sessions :
        ApiEnrollmentCount(s)
        => LET c == req[s].course_id
               n == GetEnrollmentCount(enrollments, c)
           IN /\ db' = db
              /\ req'[s].status.enrolled = n
              /\ req'[s].status.capacity = capacity[c]
              /\ req'[s].status.available = capacity[c] - n
              /\ req'[s].status.is_full = (n >= capacity[c])

\* C13: the status query of a course changes no ledger state and returns
\* enrolled = the number of Enrollment rows of the course, capacity = its
\* capacity, available = capacity - enrolled and isFull = (enrolled >= capacity);
\* and every answer has available >= 0 and isFull exactly when available = 0.
C13_StatusQuery == []C13_AnswerConsistent /\ [][C13_AnswerStep]_vars

\* the Enrollment and Grade rows that differ between two states of the tables
ChangedEnrollments == (enrollments \ enrollments') \cup (enrollments' \ enrollments)

ChangedGrades == (grades \ grades') \cup (grades' \ grades)

\* C14: a step of an enroll or drop request of student u creates or deletes only
\* Enrollment rows whose user_id is u, and removes or changes no Grade row that
\* belongs to an Enrollment of another student.
C14_OwnRowsOnly ==
    [][\A s \in Sessions :
          /\ (EnrollInsert(s) \/ DropDelete(s))
             => /\ \A r \in ChangedEnrollments : r.user_id = req[s].user_id
                /\ \A g \in ChangedGrades : \A r \in enrollments :
                      r.id = g.enrollment_id => r.user_id = req[s].user_id
          /\ (EnrollCheckExisting(s) \/ EnrollCheckFull(s)) => db' = db
          /\ \A c \in CourseIds \cup {MissingCourseId} :
                (EnrollBegin(s, c) \/ DropBegin(s, c)) => db' = db]_vars

\* the request session s has just issued was turned away as Forbidden
RefusedForbidden(s) == Done(s)' /\ req'[s].resp = "Forbidden"

\* C15: a setGrade call of a caller whose role is student, and an enroll or drop
\* call of a caller whose role is teacher, is refused as Forbidden and changes
\* no table, whatever its arguments are; the role of a caller is the role the
\* users table holds for them when they call.
C15_RoleGating ==
    [][\A s \in Sessions :
          /\ \A form \in GradeForms :
                GradeBegin(s, form) /\ StoredRole(session[s].user_id) = "student"
                => RefusedForbidden(s) /\ db' = db
          /\ \A c \in CourseIds \cup {MissingCourseId} :
                (EnrollBegin(s, c) \/ DropBegin(s, c))
                   /\ StoredRole(session[s].user_id) = "teacher"
                => RefusedForbidden(s) /\ db' = db]_vars

\* the error outcomes of the taxonomy; a 404 page is NotFound, and the message
\* for a grade field that is not a number is counted with InvalidRange
DefinedErrors ==
    {"AlreadyEnrolled", "CourseFull", "NotFound", "Http404", "InvalidRange",
     "InvalidValue", "Forbidden"}

\* session s takes a step of an enroll or setGrade request
EnrollOrGradeStep(s) ==
    \/ \E c \in CourseIds \cup {MissingCourseId} : EnrollBegin(s, c)
    \/ EnrollCheckExisting(s) \/ EnrollCheckFull(s) \/ EnrollInsert(s)
    \/ \E form \in GradeForms : GradeBegin(s, form)
    \/ GradeAuthorize(s) \/ GradeRead(s) \/ GradeWrite(s)

\* C16: no step of an enroll or setGrade that ends in failure writes an
\* Enrollment or Grade row (only its last step writes at all, so a failed
\* operation leaves both ledgers as they were when it started), and the failure
\* is one of the defined error outcomes, also when the commit is rejected by a
\* uniqueness constraint because a concurrent request committed first.
C16_FailureRollsBack ==
    [][\A s \in Sessions :
          (EnrollOrGradeStep(s) /\ Done(s)' /\ req'[s].resp # "Success")
          => /\ enrollments' = enrollments /\ grades' = grades
             /\ req'[s].resp \in DefinedErrors]_vars

\* for every session and every existing user, what the caller gets for that
\* name with a wrong password is what they get for a name nobody has
C17_SameResult ==
    \A s \in Sessions, u \in UserIds, pw \in {"right", "wrong"} :
        UserExists(u)
        => /\ LoginResult(s, u, "wrong") = LoginResult(s, NoUser, pw)
           /\ LoginResult(s, u, "wrong").resp = "AuthFailure"

\* a login that names nobody, or names a user with a wrong password, answers
\* AuthFailure and leaves every cookie as it was
C17_FailedLoginStep ==
    \A s \in Sessions, u \in UserIds \cup {NoUser}, pw \in {"right", "wrong"} :
        ( /\ nreq' # nreq /\ req'[s].op = "login" /\ req'[s].user_id = u
          /\ ~(UserExists(u) /\ pw = "right")
          /\ Login(s, u, pw) )
        => /\ req'[s].resp = "AuthFailure"
           /\ session' = session
           /\ ~session[s].logged_in => ~session'[s].logged_in

\* C17: a login with a name that does not exist and a login with an existing
\* name and a wrong password get the same AuthFailure answer and leave the same
\* session state (a session that was not logged in is still not logged in):
\* the two cases cannot be told apart by the answer or by the cookie.
C17_NoEnumeration == []C17_SameResult /\ [][C17_FailedLoginStep]_vars

\* on sessions without a login, one login has failed for a name nobody has and
\* one for the name of an existing user
C17_Witness ==
    \E s, t \in Sessions :
        /\ s # t /\ ~session[s].logged_in /\ ~session[t].logged_in
        /\ req[s].op = "login" /\ req[s].user_id = NoUser /\ req[s].resp = "AuthFailure"
        /\ req[t].op = "login" /\ UserExists(req[t].user_id) /\ req[t].resp = "AuthFailure"

\* an enroll that no other request overlapped, issued for a full course: the
\* answer is AlreadyEnrolled for a student who held a row, CourseFull otherwise
C18_Outcome ==
    \A s \in Sessions :
        ( /\ Done(s) /\ req[s].op = "enroll" /\ Admitted(s) /\ req[s].alone
          /\ req[s].free0 <= 0 )
        => req[s].resp = IF req[s].enrolled0 THEN "AlreadyEnrolled" ELSE "CourseFull"

\* the lookup of the existing row answers AlreadyEnrolled whether or not the
\* course is full, the capacity check that follows it answers CourseFull for a
\* full course, and neither changes a table
C18_Step ==
    \A s \in Sessions :
        LET u == req[s].user_id
            c == req[s].course_id
        IN /\ (EnrollCheckExisting(s) /\ EnrollmentsOf(enrollments, u, c) # {})
              => Done(s)' /\ req'[s].resp = "AlreadyEnrolled" /\ db' = db
           /\ (EnrollCheckFull(s) /\ GetEnrollmentCount(enrollments, c) >= capacity[c])
              => Done(s)' /\ req'[s].resp = "CourseFull" /\ db' = db

\* C18: enroll looks for the caller's own enrollment before it looks at the
\* capacity: for a full course it answers AlreadyEnrolled to a student enrolled
\* in it and CourseFull to a student who is not, and the ledger is unchanged.
C18_AlreadyEnrolledFirst == []C18_Outcome /\ [][C18_Step]_vars

\* a course of capacity 1 held by one student: that student's enroll was
\* answered AlreadyEnrolled and another student's enroll CourseFull
C18_Witness ==
    \E s, t \in Sessions :
        /\ s # t /\ Done(s) /\ Done(t) /\ req[s].alone /\ req[t].alone
        /\ req[s].op = "enroll" /\ req[t].op = "enroll"
        /\ req[s].course_id = req[t].course_id
        /\ req[s].free0 = 0 /\ req[s].enrolled0 /\ req[s].resp = "AlreadyEnrolled"
        /\ req[t].free0 = 0 /\ ~req[t].enrolled0 /\ req[t].resp = "CourseFull"

\* the effect of a delete whose cascade removes the Enrollment rows gone_e and
\* the TeacherCourse rows gone_t: exactly these rows and the Grade rows of
\* gone_e disappear, and every other course keeps its enrollment count
C19_Cascade(gone_e, gone_t) ==
    /\ enrollments' = enrollments \ gone_e
    /\ teacher_courses' = teacher_courses \ gone_t
    /\ grades' = {g \in grades : \A r \in gone_e : g.enrollment_id # r.id}
    /\ \A g \in grades' : \A r \in gone_e : g.enrollment_id # r.id
    /\ \A d \in DOMAIN capacity' :
          (\A r \in gone_e : r.course_id # d)
          => GetEnrollmentCount(enrollments', d) = GetEnrollmentCount(enrollments, d)

\* C19: the deletion of a course or of a user removes, in the same step, every
\* Enrollment and TeacherCourse row that references it and the Grade of every
\* Enrollment removed; afterwards no row refers to the deleted record, and the
\* enrollment counts of the other courses are as before.
C19_DeleteCascades ==
    [][\A s \in Sessions :
          /\ \A c \in CourseIds :
                (capacity' # capacity /\ AdminDeleteCourse(s, c))
                => /\ C19_Cascade({r \in enrollments : r.course_id = c},
                                  {tc \in teacher_courses : tc.course_id = c})
                   /\ ~CourseExists(c)'
                   /\ \A r \in enrollments' : r.course_id # c
                   /\ \A tc \in teacher_courses' : tc.course_id # c
          /\ \A u \in UserIds :
                (users' # users /\ AdminDeleteUser(s, u))
                => /\ C19_Cascade({r \in enrollments : r.user_id = u},
                                  {tc \in teacher_courses : tc.teacher_id = u})
                   /\ ~UserExists(u)'
                   /\ \A r \in enrollments' : r.user_id # u
                   /\ \A tc \in teacher_courses' : tc.teacher_id # u]_vars

\* course 1 was deleted right after the teacher graded student1's enrollment in
\* it: the enrollment, its grade and the teacher's assignment went with it
C19_Witness ==
    \E s \in Sessions :
        /\ Done(s) /\ req[s].op = "grade" /\ req[s].resp = "Success"
        /\ req[s].course_id = 1
        /\ nreq = 2
        /\ ~CourseExists(1)
        /\ enrollments = {} /\ grades = {} /\ teacher_courses = {}

\* C20: in every reachable state every Enrollment row references a course that
\* exists and a user that exists and has the role student, also when the admin
\* deletes a user who is still logged in, or a course for which an enroll
\* request is in flight.
C20_EnrollmentReferences ==
    \A r \in enrollments :
        /\ CourseExists(r.course_id)
        /\ UserExists(r.user_id)
        /\ users[r.user_id] = "student"

\* session s issues an enroll, a drop or a setGrade
LedgerCall(s) ==
    \/ \E c \in CourseIds \cup {MissingCourseId} : EnrollBegin(s, c) \/ DropBegin(s, c)
    \/ \E form \in GradeForms : GradeBegin(s, form)

\* C21: an enroll, drop or setGrade issued on a session that is not logged in
\* (none has logged in yet, or it has logged out) is refused and changes no
\* table; the steps that write an Enrollment or Grade row belong to requests of
\* logged-in sessions; a logout leaves the session not logged in; and a login
\* that fails does not make a session logged in.
C21_SessionGating ==
    [][\A s \in Sessions :
          /\ ( /\ nreq' # nreq /\ ~session[s].logged_in
               /\ req'[s].op \in {"enroll", "drop", "grade"}
               /\ LedgerCall(s) )
             => Done(s)' /\ req'[s].resp = "LoginRequired" /\ db' = db
          /\ ( /\ req[s].pc \in {"enroll_insert", "drop_delete", "grade_write"}
               /\ (EnrollInsert(s) \/ DropDelete(s) \/ GradeWrite(s)) )
             => session[s].logged_in /\ session[s].user_id = req[s].user_id
          /\ (req'[s].op = "logout" /\ Logout(s))
             => ~session'[s].logged_in /\ db' = db
          /\ ( /\ nreq' # nreq /\ req'[s].op = "login" /\ req'[s].resp # "Success"
               /\ \E u \in UserIds \cup {NoUser}, pw \in Passwords : Login(s, u, pw) )
             => /\ session'[s].logged_in = session[s].logged_in
                /\ db' = db]_vars

\* a session logged in, enrolled its student in course 2, logged out, and its
\* next enroll was refused; the other session has issued nothing
C21_Witness ==
    \E s, t \in Sessions :
        /\ s # t /\ req[t].op = "none" /\ ~session[t].logged_in
        /\ \E r \in enrollments : r.course_id = 2
        /\ ~session[s].logged_in
        /\ Done(s) /\ req[s].op = "enroll" /\ req[s].resp = "LoginRequired"

\* the grade field is present and is not a number
NotANumber(form) == form \in {TextField, NanField}

\* C22: a setGrade by a teacher assigned to the course whose form has no grade
\* field passes validation as the value 0 and its write, when no other request
\* overlapped it, ends in success with one Grade row of value 0 for the
\* enrollment (created, or the existing one overwritten); a setGrade whose grade
\* field is present but not a number is turned away as an invalid value at
\* validation and changes no Grade row.
C22_MissingIsZero ==
    [][\A s \in Sessions :
          /\ ( /\ GradeAuthorize(s)
               /\ Assigned(req[s].user_id, req[s].course_id) )
             => /\ req[s].form = MissingField => req'[s].pc = "grade_read"
                /\ NotANumber(req[s].form)
                   => Done(s)' /\ req'[s].resp = "InvalidValue" /\ grades' = grades
          /\ (GradeWrite(s) /\ req'[s].alone /\ req[s].form = MissingField)
             => /\ req'[s].resp = "Success"
                /\ \E g \in grades' :
                      /\ GradesOf(grades', req[s].enrollment_id) = {g}
                      /\ g.grade_value = 0]_vars

====
